---- MODULE Spec2Model ----
(***************************************************************************)
(* The x/leverage query CLI (x/leverage/client/cli/query.go): the command  *)
(* tree built by GetQueryCmd and one invocation of a query command, cut at *)
(* its calls to collaborators (cobra's argument validator, the client      *)
(* query context, the gRPC query client, PrintProto).                      *)
(***************************************************************************)
EXTENDS Integers, Sequences, FiniteSets, TLC

\* ------------------------------------------------------------------ bounds

\* Most positional arguments an invocation is given.
MaxArgs == 2

\* ------------------------------------------------------- command-line data

\* Positional argument and flag values: Go strings, kept as they were typed.
\* The set holds values a trim or a case change would rewrite.
ArgValues == {"umee1abc", " umee1abc ", "UMEE1ABC", "uumee"}

\* Values of the --denom flag; "" is the flag's default (flag absent).
FlagValues == {"", "uumee", "UUMEE"}

\* Responses the remote query service may return.
Responses == {"resp1", "resp2"}

NoResponse == "none"

\* strings.TrimSpace on the values above: a rewriting a verbatim copy must
\* not apply.
TrimSpace(s) == IF s = " umee1abc " THEN "umee1abc" ELSE s

\* Argument sequences of length 0..MaxArgs.
ArgLists == UNION {[1..n -> ArgValues] : n \in 0..MaxArgs}

\* ------------------------------------------------------------ the commands

\* cobra.MinimumNArgs(n) in the place of cobra.ExactArgs(n).
MinimumNArgs(n, args) == Len(args) >= n

\* cobra.ExactArgs(n): nil exactly when len(args) = n.
ExactArgs(n, args) == Len(args) = n

\* cobra.NoArgs: nil exactly when there are no positional arguments.
NoArgs(args) == Len(args) = 0

\* An empty request message (proto3: absent string fields are "").
EmptyRequest(method) == [method |-> method, Address |-> "", Denom |-> ""]

\* The address trimmed before it is packaged.
AddressRequestTrimmed(method, args) ==
    [method |-> method, Address |-> TrimSpace(args[1]), Denom |-> ""]

\* req := &types.Query<M>Request{Address: args[0]}
AddressRequest(method, args) ==
    [method |-> method, Address |-> args[1], Denom |-> ""]

\* req := &types.Query<M>Request{Denom: args[0]}
DenomRequest(method, args) ==
    [method |-> method, Address |-> "", Denom |-> args[1]]

\* The flag's value used without looking at GetString's error.
WithDenomFlagErrIgnored(req, d, err) ==
    IF Len(d) > 0 THEN [req EXCEPT !.Denom = d] ELSE req

\* if d, err := cmd.Flags().GetString(FlagDenom); len(d) > 0 && err == nil {
\*     req.Denom = d }
WithDenomFlag(req, d, err) ==
    IF Len(d) > 0 /\ ~err THEN [req EXCEPT !.Denom = d] ELSE req

\* Each constructor of query.go: its Use name, the query client method its
\* RunE calls, the shape of its request, and whether it defines --denom.
\*   kind "none": no positional argument, empty request
\*   kind "addr": Address: args[0]
\*   kind "denom": Denom: args[0]
Cmd(use, method, kind, noargs, flag) ==
    [use |-> use, method |-> method, kind |-> kind, noargs |-> noargs,
     flag |-> flag]

GetCmdQueryAllRegisteredTokens ==
    Cmd("registered-tokens", "RegisteredTokens", "none", TRUE, FALSE)
GetCmdQueryParams == Cmd("params", "Params", "none", TRUE, FALSE)
GetCmdQueryBorrowed == Cmd("borrowed", "Borrowed", "addr", FALSE, TRUE)
GetCmdQueryBorrowedValue ==
    Cmd("borrowed-value", "BorrowedValue", "addr", FALSE, TRUE)
GetCmdQuerySupplied == Cmd("supplied", "Supplied", "addr", FALSE, TRUE)
GetCmdQuerySuppliedValue ==
    Cmd("supplied-value", "SuppliedValue", "addr", FALSE, TRUE)
GetCmdQueryReserveAmount ==
    Cmd("reserved", "ReserveAmount", "denom", FALSE, FALSE)
GetCmdQueryCollateral == Cmd("collateral", "Collateral", "addr", FALSE, TRUE)
GetCmdQueryCollateralValue ==
    Cmd("collateral-value", "CollateralValue", "addr", FALSE, TRUE)
GetCmdQueryExchangeRate ==
    Cmd("exchange-rate", "ExchangeRate", "denom", FALSE, FALSE)
GetCmdQueryAvailableBorrow ==
    Cmd("available-borrow", "AvailableBorrow", "denom", FALSE, FALSE)
GetCmdQuerySupplyAPY == Cmd("supply-apy", "SupplyAPY", "denom", FALSE, FALSE)
GetCmdQueryBorrowAPY == Cmd("borrow-apy", "BorrowAPY", "denom", FALSE, FALSE)
GetCmdQueryMarketSize ==
    Cmd("market-size", "MarketSize", "denom", FALSE, FALSE)
GetCmdQueryTokenMarketSize ==
    Cmd("token-market-size", "TokenMarketSize", "denom", FALSE, FALSE)
GetCmdQueryBorrowLimit ==
    Cmd("borrow-limit", "BorrowLimit", "addr", FALSE, FALSE)
GetCmdQueryLiquidationThreshold ==
    Cmd("liquidation-threshold", "LiquidationThreshold", "addr", FALSE, FALSE)
GetCmdQueryMarketSummary ==
    Cmd("market-summary", "MarketSummary", "denom", FALSE, FALSE)
GetCmdQueryLiquidationTargets ==
    Cmd("liquidation-targets", "LiquidationTargets", "none", FALSE, FALSE)
GetCmdQueryTotalCollateral ==
    Cmd("total-collateral", "TotalCollateral", "denom", FALSE, FALSE)
GetCmdQueryTotalBorrowed ==
    Cmd("total-borrowed", "TotalBorrowed", "denom", FALSE, FALSE)

\* Every GetCmdQuery* constructor the file defines.
Constructors ==
    {GetCmdQueryAllRegisteredTokens, GetCmdQueryParams, GetCmdQueryBorrowed,
     GetCmdQueryBorrowedValue, GetCmdQuerySupplied, GetCmdQuerySuppliedValue,
     GetCmdQueryReserveAmount, GetCmdQueryCollateral,
     GetCmdQueryCollateralValue, GetCmdQueryExchangeRate,
     GetCmdQueryAvailableBorrow, GetCmdQuerySupplyAPY, GetCmdQueryBorrowAPY,
     GetCmdQueryMarketSize, GetCmdQueryTokenMarketSize, GetCmdQueryBorrowLimit,
     GetCmdQueryLiquidationThreshold, GetCmdQueryMarketSummary,
     GetCmdQueryLiquidationTargets, GetCmdQueryTotalCollateral,
     GetCmdQueryTotalBorrowed}

\* GetQueryCmd with one AddCommand argument dropped.
GetQueryCmdDropsOne ==
    <<GetCmdQueryAllRegisteredTokens, GetCmdQueryParams, GetCmdQueryBorrowed,
      GetCmdQueryBorrowedValue, GetCmdQuerySupplied, GetCmdQuerySuppliedValue,
      GetCmdQueryReserveAmount, GetCmdQueryCollateral,
      GetCmdQueryCollateralValue, GetCmdQueryExchangeRate,
      GetCmdQuerySupplyAPY, GetCmdQueryBorrowAPY, GetCmdQueryMarketSize,
      GetCmdQueryTokenMarketSize, GetCmdQueryBorrowLimit,
      GetCmdQueryLiquidationThreshold, GetCmdQueryLiquidationTargets,
      GetCmdQueryTotalCollateral, GetCmdQueryTotalBorrowed>>

\* GetQueryCmd: the subcommands cmd.AddCommand registers, in order.
GetQueryCmd ==
    <<GetCmdQueryAllRegisteredTokens, GetCmdQueryParams, GetCmdQueryBorrowed,
      GetCmdQueryBorrowedValue, GetCmdQuerySupplied, GetCmdQuerySuppliedValue,
      GetCmdQueryReserveAmount, GetCmdQueryCollateral,
      GetCmdQueryCollateralValue, GetCmdQueryExchangeRate,
      GetCmdQuerySupplyAPY, GetCmdQueryBorrowAPY, GetCmdQueryMarketSize,
      GetCmdQueryTokenMarketSize, GetCmdQueryBorrowLimit,
      GetCmdQueryLiquidationThreshold, GetCmdQueryLiquidationTargets,
      GetCmdQueryMarketSummary, GetCmdQueryTotalCollateral,
      GetCmdQueryTotalBorrowed>>

\* Names a user may type after "query leverage": every constructor's name
\* and one that no constructor defines.
CommandNames == {c.use : c \in Constructors} \cup {"no-such-query"}

\* ------------------------------------------------------- the lending ledger
\* The ledger the queries read is served by the remote query service; its
\* code is not in this repository's files. It is modelled from the
\* specification: sections 3 (data model), 4.3 to 4.6 (operations) and 7
\* (failures). Amounts are whole base units or whole uTokens; values are
\* kept as exact integers by scaling (see Scale).

\* Most ledger operations, price updates and accruals in one run.
MaxOps == 3

\* The amounts an operation may name, in base units or uTokens.
Amounts == {1, 2}

\* The prices the oracle may quote, in USD per base unit.
Prices == {1, 2}

Accounts == {"a1", "a2"}

Denoms == {"X", "Y"}

\* TokenDenomParams per denomination, in percent: collateral weight <=
\* liquidation threshold <= 100, the liquidation incentive (bonus), the
\* reserve factor, and the enable flags. X is collateral that cannot be
\* borrowed; Y can be supplied and borrowed.
TokenRegistry ==
    [d \in Denoms |->
        IF d = "X"
        THEN [collateralWeight |-> 50, liquidationThreshold |-> 75,
              liquidationIncentive |-> 10, reserveFactor |-> 50,
              enableSupply |-> TRUE, enableBorrow |-> FALSE]
        ELSE [collateralWeight |-> 50, liquidationThreshold |-> 75,
              liquidationIncentive |-> 10, reserveFactor |-> 50,
              enableSupply |-> TRUE, enableBorrow |-> TRUE]]

RECURSIVE SumOver(_, _)
SumOver(f, S) ==
    IF S = {} THEN 0
    ELSE LET x == CHOOSE y \in S : TRUE IN f[x] + SumOver(f, S \ {x})

RECURSIVE ProductOver(_, _)
ProductOver(f, S) ==
    IF S = {} THEN 1
    ELSE LET x == CHOOSE y \in S : TRUE IN f[x] * ProductOver(f, S \ {x})

Min(a, b) == IF a <= b THEN a ELSE b

\* A ledger with no position and empty markets.
EmptyLedger ==
    [supplied |-> [a \in Accounts |-> [d \in Denoms |-> 0]],
     collateral |-> [a \in Accounts |-> [d \in Denoms |-> 0]],
     borrowed |-> [a \in Accounts |-> [d \in Denoms |-> 0]],
     totalSupplied |-> [d \in Denoms |-> 0],
     totalBorrowed |-> [d \in Denoms |-> 0],
     totalReserved |-> [d \in Denoms |-> 0]]

\* Outstanding uTokens of a denomination.
uTokenSupply(L, d) == SumOver([a \in Accounts |-> L.supplied[a][d]], Accounts)

\* The exchange rate of d is RateNum/RateDen base units per uToken: the
\* base-token backing over the uToken supply, and 1 for an empty market.
RateNum(L, d) == IF uTokenSupply(L, d) = 0 THEN 1 ELSE L.totalSupplied[d]

RateDen(L, d) == IF uTokenSupply(L, d) = 0 THEN 1 ELSE uTokenSupply(L, d)

\* Values are USD times Scale(L): the product of the rate denominators
\* (which clears every exchange rate) times 100 (which clears the percent
\* weights).
RateDens(L) == ProductOver([d \in Denoms |-> RateDen(L, d)], Denoms)

Scale(L) == 100 * RateDens(L)

\* collateralUTokenAmount * exchangeRate * oraclePrice(denom) * weight,
\* summed across denominations; weight names the parameter used.
weightedCollateral(L, P, a, weight) ==
    SumOver([d \in Denoms |->
                L.collateral[a][d] * RateNum(L, d) * (RateDens(L) \div RateDen(L, d))
                * P[d] * TokenRegistry[d][weight]],
            Denoms)

limitValue(L, P, a) == weightedCollateral(L, P, a, "collateralWeight")

thresholdValue(L, P, a) == weightedCollateral(L, P, a, "liquidationThreshold")

totalBorrowedValue(L, P, a) ==
    SumOver([d \in Denoms |-> L.borrowed[a][d] * P[d] * Scale(L)], Denoms)

\* The borrow-limit check.
withinBorrowLimit(L, P, a) == totalBorrowedValue(L, P, a) <= limitValue(L, P, a)

\* LiquidationEngine states.
Healthy(L, P, a) == totalBorrowedValue(L, P, a) <= thresholdValue(L, P, a)

Eligible(L, P, a) == totalBorrowedValue(L, P, a) > thresholdValue(L, P, a)

Outcome(r, L) == [result |-> r, ledger |-> L]

\* supply(account, denom, amount): mints amount / exchangeRate uTokens
\* (rounded down) and adds amount to the market's total supplied.
supply(L, a, d, amount) ==
    IF ~TokenRegistry[d].enableSupply THEN Outcome("DenomDisabled", L)
    ELSE IF amount <= 0 THEN Outcome("InvalidAmount", L)
    ELSE LET minted == (amount * RateDen(L, d)) \div RateNum(L, d) IN
         Outcome("ok",
            [L EXCEPT !.supplied[a][d] = @ + minted,
                      !.totalSupplied[d] = @ + amount])

\* withdraw(account, denom, uTokenAmount): only uTokens that are not
\* collateral, and only if the account is within its borrow limit afterwards.
withdraw(L, P, a, d, uTokens) ==
    IF uTokens > L.supplied[a][d] - L.collateral[a][d]
    THEN Outcome("InsufficientBalance", L)
    ELSE LET base == (uTokens * RateNum(L, d)) \div RateDen(L, d)
             after == [L EXCEPT !.supplied[a][d] = @ - uTokens,
                                !.totalSupplied[d] = @ - base]
         IN IF withinBorrowLimit(after, P, a)
            THEN Outcome("ok", after)
            ELSE Outcome("BorrowLimitExceeded", L)

\* collateralize without the check against the free uTokens.
collateralizeUnchecked(L, a, d, uTokens) ==
    Outcome("ok", [L EXCEPT !.collateral[a][d] = @ + uTokens])

\* collateralize(account, denom, uTokenAmount): moves uTokens from the
\* supplied-free pool to the collateral pool.
collateralize(L, a, d, uTokens) ==
    IF uTokens > L.supplied[a][d] - L.collateral[a][d]
    THEN Outcome("InsufficientBalance", L)
    ELSE Outcome("ok", [L EXCEPT !.collateral[a][d] = @ + uTokens])

\* decollateralize: the reverse move, under the same borrow-limit check as
\* withdraw.
decollateralize(L, P, a, d, uTokens) ==
    IF uTokens > L.collateral[a][d]
    THEN Outcome("InsufficientBalance", L)
    ELSE LET after == [L EXCEPT !.collateral[a][d] = @ - uTokens] IN
         IF withinBorrowLimit(after, P, a)
         THEN Outcome("ok", after)
         ELSE Outcome("BorrowLimitExceeded", L)

\* borrow with the borrow-limit check made before the amount is added.
borrowCheckedBefore(L, P, a, d, amount) ==
    IF ~TokenRegistry[d].enableBorrow THEN Outcome("DenomDisabled", L)
    ELSE IF withinBorrowLimit(L, P, a)
         THEN Outcome("ok", [L EXCEPT !.borrowed[a][d] = @ + amount,
                                      !.totalBorrowed[d] = @ + amount])
         ELSE Outcome("BorrowLimitExceeded", L)

\* borrow(account, denom, amount): the denomination must be enabled for
\* borrowing and the account within its borrow limit with the new amount.
borrow(L, P, a, d, amount) ==
    IF ~TokenRegistry[d].enableBorrow THEN Outcome("DenomDisabled", L)
    ELSE LET after == [L EXCEPT !.borrowed[a][d] = @ + amount,
                                !.totalBorrowed[d] = @ + amount]
         IN IF withinBorrowLimit(after, P, a)
            THEN Outcome("ok", after)
            ELSE Outcome("BorrowLimitExceeded", L)

\* repay(account, denom, amount): the amount is clamped to what is owed.
repay(L, a, d, amount) ==
    LET applied == Min(amount, L.borrowed[a][d]) IN
    Outcome("ok", [L EXCEPT !.borrowed[a][d] = @ - applied,
                            !.totalBorrowed[d] = @ - applied])

\* The transfer a liquidation makes: repaid base units leave the borrower's
\* debt, seized uTokens leave the borrower's collateral (and supplied
\* balance) for the liquidator's supplied balance.
applyLiquidation(L, liquidator, borrower, repayDenom, rewardDenom, repaid, seized) ==
    LET debited ==
            [L EXCEPT !.borrowed[borrower][repayDenom] = @ - repaid,
                      !.totalBorrowed[repayDenom] = @ - repaid,
                      !.collateral[borrower][rewardDenom] = @ - seized,
                      !.supplied[borrower][rewardDenom] = @ - seized]
    IN [debited EXCEPT !.supplied[liquidator][rewardDenom] = @ + seized]

\* liquidate that skips the eligibility check.
liquidateAnyAccount(L, P, liquidator, borrower, repayDenom, amount, rewardDenom) ==
    LET repay0 == Min(amount, L.borrowed[borrower][repayDenom])
        held == L.collateral[borrower][rewardDenom]
    IN Outcome("ok",
        applyLiquidation(L, liquidator, borrower, repayDenom, rewardDenom,
                         repay0, Min(repay0, held)))

\* liquidate(liquidator, borrower, repayDenom, amount, rewardDenom): on an
\* Eligible borrower, repays up to the debt in repayDenom (close factor
\* 100%) and seizes collateral of rewardDenom worth the repaid value plus
\* the incentive; when the borrower holds less collateral than that, seizes
\* all of it and repays proportionally less (partial liquidation). Amounts
\* round down. The incentive's reserve share is a protocol parameter taken
\* as zero.
liquidate(L, P, liquidator, borrower, repayDenom, amount, rewardDenom) ==
    IF ~Eligible(L, P, borrower) THEN Outcome("NotEligible", L)
    ELSE
    LET repay0 == Min(amount, L.borrowed[borrower][repayDenom])
        held == L.collateral[borrower][rewardDenom]
        bonus == 100 + TokenRegistry[rewardDenom].liquidationIncentive
        \* uTokens worth repay0 * price * (1 + bonus)
        seize0 == (repay0 * P[repayDenom] * bonus * RateDen(L, rewardDenom))
                  \div (100 * P[rewardDenom] * RateNum(L, rewardDenom))
        seized == Min(seize0, held)
        repaid == IF seize0 <= held THEN repay0
                  ELSE (repay0 * held) \div seize0
    IN Outcome("ok",
        applyLiquidation(L, liquidator, borrower, repayDenom, rewardDenom,
                         repaid, seized))

\* accrue(marketState, params, elapsed) over one period: interest on each
\* indebted position rounds up to one base unit (amounts here are a few
\* units); the reserve factor's share of the interest, rounded down, goes to
\* reserves and the rest to the uTokens' backing, which raises the exchange
\* rate. With no uTokens outstanding all of it goes to reserves.
accrue(L, d) ==
    LET interest == [a \in Accounts |-> IF L.borrowed[a][d] > 0 THEN 1 ELSE 0]
        total == SumOver(interest, Accounts)
        reserved == IF uTokenSupply(L, d) = 0 THEN total
                    ELSE (total * TokenRegistry[d].reserveFactor) \div 100
    IN [L EXCEPT !.borrowed = [a \in Accounts |->
                                [L.borrowed[a] EXCEPT ![d] = @ + interest[a]]],
                 !.totalBorrowed[d] = @ + total,
                 !.totalReserved[d] = @ + reserved,
                 !.totalSupplied[d] = @ + (total - reserved)]

\* ---------------------------------------------------------------- the state

VARIABLES
    subcommands,  \* the names of the subcommands GetQueryCmd registered
    pc,           \* where the invocation stands
    name,         \* the subcommand name typed
    args,         \* the positional arguments typed
    flagDenom,    \* the value GetString(FlagDenom) yields
    flagErr,      \* whether GetString(FlagDenom) yields an error
    ctxErr,       \* what GetClientQueryContext returned: "none", "nil", error
    requests,     \* the requests sent to the query service, in order
    queryErr,     \* what the query client returned: "none", "nil", error
    resp,         \* the response the query service returned, or NoResponse
    printed,      \* the responses printed, in order
    printErr,     \* what PrintProto returned: "none", "nil", error
    result,       \* what the command returned: "none", "nil", error
    ledger,       \* positions and market state of the lending ledger
    price,        \* the oracle's price of each denomination
    lastOp,       \* the last ledger operation and what it returned
    ops,          \* how many ledger operations ran
    rootSecond,   \* the second value NewRootCmd returned, which main drops
    execErr,      \* what svrcmd.Execute returned: "none", "nil", error
    exitStatus    \* the exit status of the process, -1 while it runs

cliVars ==
    <<subcommands, pc, name, args, flagDenom, flagErr, ctxErr, requests,
      queryErr, resp, printed, printErr, result>>

ledgerVars == <<ledger, price, lastOp, ops>>

mainVars == <<rootSecond, execErr, exitStatus>>

vars == <<cliVars, ledgerVars, mainVars>>

\* The Use names of a command list, in order.
Names(cmds) == [i \in DOMAIN cmds |-> cmds[i].use]

\* The subcommands of that name, as cobra's Find resolves the typed name.
Registered(n) ==
    {c \in Constructors : c.use = n /\ \E i \in DOMAIN subcommands : subcommands[i] = n}

cmd == CHOOSE c \in Registered(name) : TRUE

\* The user runs "query leverage <n> <a...> [--denom f]": one process per
\* invocation, which ends when the command returns. For a command that
\* defines --denom, GetString yields the typed value (or the default "") and
\* no error; an error with any value is kept as an outcome the code handles.
Invoke ==
    /\ pc = "idle"
    /\ \E n \in CommandNames, a \in ArgLists, f \in FlagValues, e \in BOOLEAN :
        /\ name' = n
        /\ args' = a
        /\ flagDenom' = f
        /\ flagErr' = e
    /\ pc' = "find"
    /\ UNCHANGED ledgerVars
    /\ UNCHANGED mainVars
    /\ UNCHANGED <<subcommands, ctxErr, requests, queryErr, resp, printed,
                   printErr, result>>

\* RunE: client.ValidateCmd on the parent: a name that is no subcommand is an
\* unknown-command error; a subcommand is handed the rest of the line.
ValidateCmd ==
    /\ pc = "find"
    /\ IF Registered(name) = {}
       THEN pc' = "done" /\ result' = "ErrUnknownCommand"
       ELSE pc' = "args" /\ UNCHANGED result
    /\ UNCHANGED ledgerVars
    /\ UNCHANGED mainVars
    /\ UNCHANGED <<subcommands, name, args, flagDenom, flagErr, ctxErr,
                   requests, queryErr, resp, printed, printErr>>

\* Args: cobra.ExactArgs(1) / cobra.ExactArgs(0) / cobra.NoArgs.
ArgsOk(c, a) ==
    CASE c.kind = "none" /\ c.noargs -> NoArgs(a)
      [] c.kind = "none" /\ ~c.noargs -> ExactArgs(0, a)
      [] OTHER -> ExactArgs(1, a)

\* cobra checks Args before it calls RunE; its error is the command's.
ValidateArgs ==
    /\ pc = "args"
    /\ IF ArgsOk(cmd, args)
       THEN pc' = "runE" /\ UNCHANGED result
       ELSE pc' = "done" /\ result' = "ErrArgs"
    /\ UNCHANGED ledgerVars
    /\ UNCHANGED mainVars
    /\ UNCHANGED <<subcommands, name, args, flagDenom, flagErr, ctxErr,
                   requests, queryErr, resp, printed, printErr>>

\* GetClientQueryContext whose error is dropped: RunE goes on to the query.
GetClientQueryContextErrDropped ==
    /\ pc = "runE"
    /\ \E err \in {"nil", "ErrContext"} :
        /\ ctxErr' = err
        /\ pc' = "ctx"
        /\ UNCHANGED result
    /\ UNCHANGED ledgerVars
    /\ UNCHANGED mainVars
    /\ UNCHANGED <<subcommands, name, args, flagDenom, flagErr, requests,
                   queryErr, resp, printed, printErr>>

\* clientCtx, err := client.GetClientQueryContext(cmd)
\* if err != nil { return err }
GetClientQueryContext ==
    /\ pc = "runE"
    /\ \E err \in {"nil", "ErrContext"} :
        /\ ctxErr' = err
        /\ IF err # "nil"
           THEN pc' = "done" /\ result' = err
           ELSE pc' = "ctx" /\ UNCHANGED result
    /\ UNCHANGED ledgerVars
    /\ UNCHANGED mainVars
    /\ UNCHANGED <<subcommands, name, args, flagDenom, flagErr, requests,
                   queryErr, resp, printed, printErr>>

\* The request RunE builds for command c.
BuildRequest(c, a, d, err) ==
    CASE c.kind = "none" -> EmptyRequest(c.method)
      [] c.kind = "denom" -> DenomRequest(c.method, a)
      [] c.kind = "addr" /\ c.flag ->
            WithDenomFlag(AddressRequest(c.method, a), d, err)
      [] OTHER -> AddressRequest(c.method, a)

\* resp, err := queryClient.<Method>(cmd.Context(), req)
\* if err != nil { return err }
SendRequest ==
    /\ pc = "ctx"
    /\ requests' = Append(requests, BuildRequest(cmd, args, flagDenom, flagErr))
    /\ \E r \in Responses \cup {NoResponse} :
        IF r = NoResponse
        THEN /\ queryErr' = "ErrQuery"
             /\ result' = "ErrQuery"
             /\ pc' = "done"
             /\ UNCHANGED resp
        ELSE /\ queryErr' = "nil"
             /\ resp' = r
             /\ pc' = "resp"
             /\ UNCHANGED result
    /\ UNCHANGED ledgerVars
    /\ UNCHANGED mainVars
    /\ UNCHANGED <<subcommands, name, args, flagDenom, flagErr, ctxErr,
                   printed, printErr>>

\* PrintProto whose error is swallowed: the command reports success.
PrintProtoErrSwallowed ==
    /\ pc = "resp"
    /\ printed' = Append(printed, resp)
    /\ \E e \in {"nil", "ErrPrint"} :
        /\ printErr' = e
        /\ result' = "nil"
    /\ pc' = "done"
    /\ UNCHANGED ledgerVars
    /\ UNCHANGED mainVars
    /\ UNCHANGED <<subcommands, name, args, flagDenom, flagErr, ctxErr,
                   requests, queryErr, resp>>

\* return clientCtx.PrintProto(resp)
PrintProto ==
    /\ pc = "resp"
    /\ printed' = Append(printed, resp)
    /\ \E e \in {"nil", "ErrPrint"} :
        /\ printErr' = e
        /\ result' = e
    /\ pc' = "done"
    /\ UNCHANGED ledgerVars
    /\ UNCHANGED mainVars
    /\ UNCHANGED <<subcommands, name, args, flagDenom, flagErr, ctxErr,
                   requests, queryErr, resp>>

\* ------------------------------------------------------ ledger operations

\* A ledger some way into its life, reached from the empty ledger under
\* prices P by the operations below, in this order: a2 supplies 4 Y (2 and
\* 2), makes them collateral (2 and 2) and borrows 1 Y; interest accrues on
\* Y, which raises Y's exchange rate; a1 supplies 2 X, makes them
\* collateral and borrows 1 Y.
SeasonedLedger(P) ==
    LET s1 == supply(EmptyLedger, "a2", "Y", 2).ledger
        s2 == supply(s1, "a2", "Y", 2).ledger
        s3 == collateralize(s2, "a2", "Y", 2).ledger
        s4 == collateralize(s3, "a2", "Y", 2).ledger
        s5 == borrow(s4, P, "a2", "Y", 1).ledger
        s6 == accrue(s5, "Y")
        s7 == supply(s6, "a1", "X", 2).ledger
        s8 == collateralize(s7, "a1", "X", 2).ledger
    IN borrow(s8, P, "a1", "Y", 1).ledger


Op(op, a, d, amount, r) ==
    [op |-> op, account |-> a, denom |-> d, amount |-> amount, result |-> r]

\* Every operation runs to completion, one at a time; a failed one returns
\* its failure and leaves the ledger as it was.
Returns(op, a, d, amount, out) ==
    /\ ledger' = out.ledger
    /\ lastOp' = Op(op, a, d, amount, out.result)
    /\ ops' = ops + 1
    /\ UNCHANGED price
    /\ UNCHANGED cliVars
    /\ UNCHANGED mainVars

Supply ==
    /\ ops < MaxOps
    /\ \E a \in Accounts, d \in Denoms, n \in Amounts \cup {0} :
        Returns("supply", a, d, n, supply(ledger, a, d, n))

Withdraw ==
    /\ ops < MaxOps
    /\ \E a \in Accounts, d \in Denoms, n \in Amounts :
        Returns("withdraw", a, d, n, withdraw(ledger, price, a, d, n))

Collateralize ==
    /\ ops < MaxOps
    /\ \E a \in Accounts, d \in Denoms, n \in Amounts :
        Returns("collateralize", a, d, n, collateralize(ledger, a, d, n))

Decollateralize ==
    /\ ops < MaxOps
    /\ \E a \in Accounts, d \in Denoms, n \in Amounts :
        Returns("decollateralize", a, d, n,
                decollateralize(ledger, price, a, d, n))

Borrow ==
    /\ ops < MaxOps
    /\ \E a \in Accounts, d \in Denoms, n \in Amounts :
        Returns("borrow", a, d, n, borrow(ledger, price, a, d, n))

Repay ==
    /\ ops < MaxOps
    /\ \E a \in Accounts, d \in Denoms, n \in Amounts :
        Returns("repay", a, d, n, repay(ledger, a, d, n))

\* lastOp names the borrower and the denomination repaid.
Liquidate ==
    /\ ops < MaxOps
    /\ \E liquidator \in Accounts, borrower \in Accounts, d \in Denoms,
          n \in Amounts, r \in Denoms :
        Returns("liquidate", borrower, d, n,
                liquidate(ledger, price, liquidator, borrower, d, n, r))

\* Interest accrues on a denomination as time passes.
Accrue ==
    /\ ops < MaxOps
    /\ \E d \in Denoms :
        /\ ledger' = accrue(ledger, d)
        /\ lastOp' = Op("accrue", "a1", d, 0, "ok")
    /\ ops' = ops + 1
    /\ UNCHANGED price
    /\ UNCHANGED cliVars
    /\ UNCHANGED mainVars

\* The oracle publishes a new price.
OraclePrice ==
    /\ ops < MaxOps
    /\ \E d \in Denoms, p \in Prices :
        /\ p # price[d]
        /\ price' = [price EXCEPT ![d] = p]
        /\ lastOp' = Op("price", "a1", d, p, "ok")
    /\ ops' = ops + 1
    /\ UNCHANGED ledger
    /\ UNCHANGED cliVars
    /\ UNCHANGED mainVars

LedgerNext ==
    \/ Supply
    \/ Withdraw
    \/ Collateralize
    \/ Decollateralize
    \/ Borrow
    \/ Repay
    \/ Liquidate
    \/ Accrue
    \/ OraclePrice

\* ------------------------------------------------------- the umeed process

\* What NewRootCmd may hand back beside the root command: its type's zero
\* value or some other value.
SecondValues == {"zero", "nonzero"}

\* rootCmd, _ := cmd.NewRootCmd(): the root command is built and the second
\* value dropped; the command line can then be run.
NewRootCmd ==
    /\ pc = "start"
    /\ \E s \in SecondValues : rootSecond' = s
    /\ pc' = "idle"
    /\ UNCHANGED ledgerVars
    /\ UNCHANGED <<subcommands, name, args, flagDenom, flagErr, ctxErr,
                   requests, queryErr, resp, printed, printErr, result>>
    /\ UNCHANGED <<execErr, exitStatus>>

\* err := svrcmd.Execute(rootCmd, ...): the command has run, and what it
\* returned is what Execute returns.
Execute ==
    /\ pc = "done"
    /\ execErr' = result
    /\ pc' = "returned"
    /\ UNCHANGED ledgerVars
    /\ UNCHANGED <<subcommands, name, args, flagDenom, flagErr, ctxErr,
                   requests, queryErr, resp, printed, printErr, result>>
    /\ UNCHANGED <<rootSecond, exitStatus>>

\* main that also exits with 1 when NewRootCmd's second value is not the
\* zero value.
mainChecksSecond ==
    /\ pc = "returned"
    /\ exitStatus' = IF execErr # "nil" \/ rootSecond # "zero" THEN 1 ELSE 0
    /\ pc' = "exited"
    /\ UNCHANGED ledgerVars
    /\ UNCHANGED <<subcommands, name, args, flagDenom, flagErr, ctxErr,
                   requests, queryErr, resp, printed, printErr, result>>
    /\ UNCHANGED <<rootSecond, execErr>>

\* if err := svrcmd.Execute(...); err != nil { os.Exit(1) }
\* and otherwise main returns, which ends the process with status 0.
main ==
    /\ pc = "returned"
    /\ exitStatus' = IF execErr # "nil" THEN 1 ELSE 0
    /\ pc' = "exited"
    /\ UNCHANGED ledgerVars
    /\ UNCHANGED <<subcommands, name, args, flagDenom, flagErr, ctxErr,
                   requests, queryErr, resp, printed, printErr, result>>
    /\ UNCHANGED <<rootSecond, execErr>>

\* ------------------------------------------------------ the specifications

\* The query CLI: one invocation, against a ledger that stands still.
Init ==
    /\ subcommands = Names(GetQueryCmd)
    /\ pc = "idle"
    /\ name = "params"
    /\ args = <<>>
    /\ flagDenom = ""
    /\ flagErr = FALSE
    /\ ctxErr = "none"
    /\ requests = <<>>
    /\ queryErr = "none"
    /\ resp = NoResponse
    /\ printed = <<>>
    /\ printErr = "none"
    /\ result = "none"
    /\ ledger = EmptyLedger
    /\ price = [d \in Denoms |-> 1]
    /\ lastOp = Op("none", "a1", "X", 0, "none")
    /\ ops = 0
    /\ rootSecond = "zero"
    /\ execErr = "none"
    /\ exitStatus = -1

Next ==
    \/ Invoke
    \/ ValidateCmd
    \/ ValidateArgs
    \/ GetClientQueryContext
    \/ SendRequest
    \/ PrintProto

Spec == Init /\ [][Next]_vars

\* The ledger: operations, accruals and price updates in any order, with no
\* query command running.
LedgerInit ==
    /\ subcommands = Names(GetQueryCmd)
    /\ pc = "idle"
    /\ name = "params"
    /\ args = <<>>
    /\ flagDenom = ""
    /\ flagErr = FALSE
    /\ ctxErr = "none"
    /\ requests = <<>>
    /\ queryErr = "none"
    /\ resp = NoResponse
    /\ printed = <<>>
    /\ printErr = "none"
    /\ result = "none"
    /\ price = [d \in Denoms |-> 1]
    /\ ledger \in {EmptyLedger, SeasonedLedger(price)}
    /\ lastOp = Op("none", "a1", "X", 0, "none")
    /\ ops = 0
    /\ rootSecond = "zero"
    /\ execErr = "none"
    /\ exitStatus = -1

LedgerSpec == LedgerInit /\ [][LedgerNext]_vars

\* The umeed process from its start to its exit, running one query command.
MainInit ==
    /\ subcommands = Names(GetQueryCmd)
    /\ pc = "start"
    /\ name = "params"
    /\ args = <<>>
    /\ flagDenom = ""
    /\ flagErr = FALSE
    /\ ctxErr = "none"
    /\ requests = <<>>
    /\ queryErr = "none"
    /\ resp = NoResponse
    /\ printed = <<>>
    /\ printErr = "none"
    /\ result = "none"
    /\ ledger = EmptyLedger
    /\ price = [d \in Denoms |-> 1]
    /\ lastOp = Op("none", "a1", "X", 0, "none")
    /\ ops = 0
    /\ rootSecond = "zero"
    /\ execErr = "none"
    /\ exitStatus = -1

MainNext ==
    \/ NewRootCmd
    \/ Invoke
    \/ ValidateCmd
    \/ ValidateArgs
    \/ GetClientQueryContext
    \/ SendRequest
    \/ PrintProto
    \/ Execute
    \/ main

MainSpec == MainInit /\ [][MainNext]_vars

\* ------------------------------------------------------------ the claims

SubcommandNames == {subcommands[i] : i \in DOMAIN subcommands}

\* The commands whose positional argument is an address, and those whose
\* positional argument is a denomination.
AddressCommands ==
    {"borrowed", "borrowed-value", "supplied", "supplied-value", "collateral",
     "collateral-value", "borrow-limit", "liquidation-threshold"}

DenomCommands ==
    {"reserved", "exchange-rate", "supply-apy", "borrow-apy", "market-size",
     "token-market-size", "market-summary", "total-collateral",
     "total-borrowed"}

NoArgCommands == {"registered-tokens", "params", "liquidation-targets"}

\* The commands that accept --denom.
DenomFlagCommands ==
    {"borrowed", "borrowed-value", "supplied", "supplied-value", "collateral",
     "collateral-value"}

\* C1: every request sent carries the positional argument verbatim, in
\* Address for the address commands and in Denom for the denomination
\* commands, and no other field of the request comes from the argument
\* (Denom of an address command is empty or the flag's value; Address of a
\* denomination command is empty).
C1_ArgumentVerbatim ==
    \A i \in DOMAIN requests :
        /\ name \in AddressCommands =>
            /\ requests[i].Address = args[1]
            /\ requests[i].Denom \in {"", flagDenom}
        /\ name \in DenomCommands =>
            /\ requests[i].Denom = args[1]
            /\ requests[i].Address = ""

\* An address a trim would rewrite was sent as typed.
C1_Witness ==
    /\ pc = "done"
    /\ name = "borrow-limit"
    /\ args = <<" umee1abc ">>
    /\ requests = <<[method |-> "BorrowLimit", Address |-> " umee1abc ",
                     Denom |-> ""]>>

\* C2: when the query service returned a response without error, the
\* command printed exactly that response, once, and returned what the print
\* returned.
C2_PrintsResponseOnce ==
    /\ Len(printed) <= 1
    /\ \A i \in DOMAIN printed : printed[i] = resp
    /\ (pc = "done" /\ queryErr = "nil") =>
        /\ resp # NoResponse
        /\ printed = <<resp>>
        /\ printErr # "none"
        /\ result = printErr

\* A response was printed and the print failed.
C2_Witness ==
    /\ pc = "done"
    /\ name = "total-borrowed"
    /\ resp = "resp2"
    /\ printed = <<"resp2">>
    /\ result = "ErrPrint"

\* C3: a registered command given the wrong number of positional arguments
\* (not 0 for registered-tokens, params and liquidation-targets, not 1 for
\* the others) sends no request and prints nothing, and it returns the
\* argument error.
WrongArgCount ==
    /\ name \in SubcommandNames
    /\ pc # "idle"
    /\ IF name \in NoArgCommands THEN Len(args) # 0 ELSE Len(args) # 1

C3_WrongArgsSendNothing ==
    WrongArgCount =>
        /\ requests = <<>>
        /\ printed = <<>>
        /\ ctxErr = "none"
        /\ pc = "done" => result = "ErrArgs"

\* An address command was given two arguments and returned.
C3_Witness ==
    /\ pc = "done"
    /\ name = "borrowed"
    /\ Len(args) = 2
    /\ result = "ErrArgs"

\* The read entry points of the query surface, by command name.
ReadEntryPoints ==
    {"borrowed", "borrowed-value", "supplied", "supplied-value", "collateral",
     "collateral-value", "reserved", "exchange-rate", "supply-apy",
     "borrow-apy", "market-size", "token-market-size", "borrow-limit",
     "liquidation-threshold", "liquidation-targets", "market-summary",
     "total-collateral", "total-borrowed"}

\* C4: every read entry point is a subcommand of the command GetQueryCmd
\* returned, and no two subcommands share a name.
C4_EntryPointsRegistered ==
    /\ ReadEntryPoints \subseteq SubcommandNames
    /\ \A i, j \in DOMAIN subcommands :
        subcommands[i] = subcommands[j] => i = j

\* A listed entry point was found among the subcommands and ran.
C4_Witness ==
    /\ pc = "done"
    /\ name = "market-summary"
    /\ result = "nil"

\* C8: the three steps run in order and stop at the first failure: a request
\* is sent only after the context was obtained without error, a response is
\* printed only after the request returned without error, a failed step's
\* error is what the command returns, and at most one request is sent.
C8_StepsInOrder ==
    /\ Len(requests) <= 1
    /\ requests # <<>> => ctxErr = "nil"
    /\ queryErr # "none" => requests # <<>>
    /\ printed # <<>> => queryErr = "nil"
    /\ ctxErr \notin {"none", "nil"} =>
        requests = <<>> /\ printed = <<>> /\ pc = "done" /\ result = ctxErr
    /\ queryErr \notin {"none", "nil"} =>
        printed = <<>> /\ pc = "done" /\ result = queryErr

\* The request failed after the context was obtained.
C8_Witness ==
    /\ pc = "done"
    /\ ctxErr = "nil"
    /\ Len(requests) = 1
    /\ queryErr = "ErrQuery"
    /\ result = "ErrQuery"

\* C9: for the commands that accept --denom, the request's Denom is the
\* flag's value when that value is non-empty and was read without error and
\* is empty otherwise; the flag never keeps the request from being sent and
\* never is the command's error.
C9_DenomFlag ==
    name \in DenomFlagCommands =>
        /\ \A i \in DOMAIN requests :
            requests[i].Denom =
                IF flagDenom # "" /\ ~flagErr THEN flagDenom ELSE ""
        /\ (pc = "done" /\ Len(args) = 1 /\ ctxErr = "nil") =>
            Len(requests) = 1
        /\ result \in {"none", "nil", "ErrArgs", "ErrContext", "ErrQuery",
                       "ErrPrint"}

\* The flag held a value but could not be read: the request went out with
\* an empty Denom.
C9_Witness ==
    /\ pc = "done"
    /\ name = "collateral-value"
    /\ flagDenom = "uumee"
    /\ flagErr
    /\ Len(requests) = 1
    /\ requests[1].Denom = ""
    /\ result = "nil"

\* C10: every constructor the file defines is a subcommand of the command
\* GetQueryCmd returned.
C10_AllConstructorsRegistered ==
    \A c \in Constructors : Registered(c.use) # {}

\* A step that is a borrow, or a liquidation, returning.
BorrowStep == lastOp'.op = "borrow" /\ ops' = ops + 1

LiquidateStep == lastOp'.op = "liquidate" /\ ops' = ops + 1

\* The ledger as it would be with the amount of the borrow in lastOp' added.
WithBorrow ==
    [ledger EXCEPT
        !.borrowed[lastOp'.account][lastOp'.denom] = @ + lastOp'.amount,
        !.totalBorrowed[lastOp'.denom] = @ + lastOp'.amount]

\* C5: in every state, after any sequence of operations, successful or
\* failed, every account's collateral uTokens of every denomination are at
\* most its supplied uTokens of that denomination.
C5_CollateralWithinSupplied ==
    \A a \in Accounts, d \in Denoms :
        ledger.collateral[a][d] <= ledger.supplied[a][d]

\* A liquidation seized one of a1's two collateral uTokens: a1 is left with
\* one supplied uToken, all of it collateral.
C5_Witness ==
    /\ lastOp.op = "liquidate"
    /\ lastOp.result = "ok"
    /\ ledger.collateral["a1"]["X"] = 1
    /\ ledger.supplied["a1"]["X"] = 1
    /\ ledger.supplied["a2"]["X"] = 1

\* What C6 says of the borrow-limit check of a borrow that got as far as
\* that check (its denomination is enabled for borrowing, the requirement
\* that comes first): a borrow that would exceed the limit fails with
\* BorrowLimitExceeded, and one that lands exactly on the limit succeeds.
BorrowLimitChecked ==
    TokenRegistry[lastOp'.denom].enableBorrow =>
        /\ ~withinBorrowLimit(WithBorrow, price, lastOp'.account) =>
            lastOp'.result = "BorrowLimitExceeded"
        /\ (totalBorrowedValue(WithBorrow, price, lastOp'.account)
                = limitValue(WithBorrow, price, lastOp'.account)) =>
            lastOp'.result = "ok"

C11_ExitStatusFollowsExecute ==
    pc = "exited" =>
        /\ exitStatus \in {0, 1}
        /\ exitStatus = 1 <=> execErr # "nil"
        /\ execErr = "nil" => exitStatus = 0
        /\ execErr = result

\* The command failed while NewRootCmd's second value was the zero value, or
\* succeeded while it was not: the status follows the command alone.
C11_Witness ==
    /\ pc = "exited"
    /\ \/ exitStatus = 1 /\ execErr = "ErrPrint" /\ rootSecond = "zero"
       \/ exitStatus = 0 /\ execErr = "nil" /\ rootSecond = "nonzero"

====
